---- MODULE Spec2Model ----
(***************************************************************************)
(* TodoFlow: the dual-mode task facade (hooks/useTodos), the session       *)
(* provider (hooks/useAuth), the remote adapter (services/api.ts) and the  *)
(* UI handlers that call them (App.tsx, TodoFilters.tsx, TodoInput).       *)
(*                                                                         *)
(* Texts are sequences of one-character strings so that trim, toLowerCase  *)
(* and includes are computed, not assumed.  Timestamps are readings of the *)
(* clock `now` (one unit = one millisecond of Date): a handler stamps the  *)
(* reading at the time it runs, and the clock may or may not have advanced *)
(* between two handlers.                                                    *)
(***************************************************************************)
EXTENDS Integers, Sequences, FiniteSets, TLC

\* ------------------------------------------------------------------ bounds
MaxTime == 3        \* the clock runs 1..MaxTime
MaxId == 2          \* ids 1..MaxId: at most MaxId tasks exist at a time
MaxTasks == 3       \* the longest collection the query engine is run on
MaxFlights == 2     \* the calls that are in flight at a time

\* An optional field that is absent (undefined in the source).
Undefined == -1

Ids == 1..MaxId

\* ------------------------------------------------------------------- texts
Blank == <<" ", " ", " ">>
TitleB == <<" ", "B">>

Titles == {Blank, TitleB}
SearchQueries == {<< >>, <<"b">>}

IsSpace(c) == c = " "

RECURSIVE TrimStart(_)
TrimStart(s) ==
  IF s = << >> THEN s
  ELSE IF IsSpace(Head(s)) THEN TrimStart(Tail(s)) ELSE s

RECURSIVE TrimEnd(_)
TrimEnd(s) ==
  IF s = << >> THEN s
  ELSE IF IsSpace(s[Len(s)]) THEN TrimEnd(SubSeq(s, 1, Len(s) - 1)) ELSE s

\* String.prototype.trim
Trim(s) == TrimEnd(TrimStart(s))

LowerChar(c) == IF c = "A" THEN "a" ELSE IF c = "B" THEN "b" ELSE c

\* String.prototype.toLowerCase
ToLowerCase(s) == [i \in 1..Len(s) |-> LowerChar(s[i])]

\* String.prototype.includes: q occurs in s as a contiguous substring
Includes(s, q) ==
  \E i \in 0..(Len(s) - Len(q)) : SubSeq(s, i + 1, i + Len(q)) = q

\* UTF-16 code units, the order in which JavaScript compares strings
CharCode(c) ==
  CASE c = " " -> 32 [] c = "A" -> 65 [] c = "B" -> 66
    [] c = "a" -> 97 [] c = "b" -> 98 [] OTHER -> 127

RECURSIVE StrLess(_, _)
StrLess(s, t) ==
  IF t = << >> THEN FALSE
  ELSE IF s = << >> THEN TRUE
  ELSE IF CharCode(Head(s)) # CharCode(Head(t))
       THEN CharCode(Head(s)) < CharCode(Head(t))
       ELSE StrLess(Tail(s), Tail(t))

\* ------------------------------------------------------------------- tasks
Priorities == {"low", "medium", "high"}
FilterTypes == {"all", "active", "completed", "overdue", "high-priority"}
SortTypes == {"created_at", "updated_at", "due_date", "priority", "text"}
SortOrders == {"asc", "desc"}

\* interface Todo, with the fields the facade reads or writes
Todo(i, txt, desc, done, prio, due, created, updated) ==
  [id |-> i, text |-> txt, description |-> desc, completed |-> done,
   priority |-> prio, due_date |-> due, created_at |-> created,
   updated_at |-> updated]

Range(s) == {s[i] : i \in 1..Len(s)}
IdsOf(s) == {s[i].id : i \in 1..Len(s)}

\* Array.prototype.findIndex, 0 when nothing matches (-1 in the source)
FindIndex(s, i) ==
  IF \E k \in 1..Len(s) : s[k].id = i
  THEN CHOOSE k \in 1..Len(s) : s[k].id = i /\ \A j \in 1..(k - 1) : s[j].id # i
  ELSE 0

\* an updates argument that is not given
NoUpdates == [f \in {} |-> Undefined]

\* { ...todo, ...updates }: the fields of updates win
Merge(t, u) == [f \in DOMAIN t \cup DOMAIN u |-> IF f \in DOMAIN u THEN u[f] ELSE t[f]]

\* ------------------------------------------------------------ query engine
\* calculateGuestStats; pending is a field only the remote overview carries
calculateGuestStats(todoList, clock) ==
  [total |-> Len(todoList),
   active |-> Len(SelectSeq(todoList, LAMBDA t : ~t.completed)),
   completed |-> Len(SelectSeq(todoList, LAMBDA t : t.completed)),
   high_priority |-> Len(SelectSeq(todoList,
                        LAMBDA t : t.priority = "high" /\ ~t.completed)),
   overdue |-> Len(SelectSeq(todoList,
                  LAMBDA t : t.due_date # Undefined /\ t.due_date < clock
                             /\ ~t.completed)),
   pending |-> Undefined]

\* the search predicate of filterAndSortTodos (title or description)
MatchesSearch(t, q) ==
  \/ Includes(ToLowerCase(t.text), ToLowerCase(q))
  \/ /\ t.description # << >>
     /\ Includes(ToLowerCase(t.description), ToLowerCase(q))

\* the status predicate with an 'overdue' that forgets the completion flag
MatchesFilterOverdueAnyStatus(t, f, clock) ==
  CASE f = "active" -> ~t.completed
    [] f = "completed" -> t.completed
    [] f = "high-priority" -> t.priority = "high" /\ ~t.completed
    [] f = "overdue" -> t.due_date # Undefined /\ t.due_date < clock
    [] OTHER -> TRUE

\* the status predicate of filterAndSortTodos
MatchesFilter(t, f, clock) ==
  CASE f = "active" -> ~t.completed
    [] f = "completed" -> t.completed
    [] f = "high-priority" -> t.priority = "high" /\ ~t.completed
    [] f = "overdue" -> t.due_date # Undefined /\ t.due_date < clock /\ ~t.completed
    [] OTHER -> TRUE

\* the priority ordinals replaced by the alphabetical rank of the names
priorityOrderAlphabetical(p) ==
  CASE p = "high" -> 1 [] p = "low" -> 2 [] OTHER -> 3

priorityOrder(p) == CASE p = "high" -> 3 [] p = "medium" -> 2 [] OTHER -> 1

\* new Date(value || 0).getTime()
DateKey(v) == IF v = Undefined THEN 0 ELSE v

\* aValue > bValue in the sort comparator, by sort key
KeyGreater(a, b, sb) ==
  CASE sb = "priority" -> priorityOrder(a.priority) > priorityOrder(b.priority)
    [] sb = "text" -> StrLess(ToLowerCase(b.text), ToLowerCase(a.text))
    [] sb = "due_date" -> DateKey(a.due_date) > DateKey(b.due_date)
    [] sb = "updated_at" -> DateKey(a.updated_at) > DateKey(b.updated_at)
    [] OTHER -> a.created_at > b.created_at

\* the comparator handed to Array.prototype.sort: it never returns 0
Comparator(a, b, sb, so) ==
  IF so = "asc"
  THEN (IF KeyGreater(a, b, sb) THEN 1 ELSE -1)
  ELSE (IF KeyGreater(b, a, sb) THEN 1 ELSE -1)

\* Array.prototype.sort as the engine runs it on short arrays: the leading
\* run is found (and reversed when it descends), then each further element
\* is inserted into the sorted prefix by binary search.
RECURSIVE InsertPos(_, _, _, _, _, _)
InsertPos(sorted, pivot, left, right, sb, so) ==
  IF left >= right THEN left
  ELSE LET mid == left + ((right - left) \div 2)
       IN IF Comparator(pivot, sorted[mid + 1], sb, so) < 0
          THEN InsertPos(sorted, pivot, left, mid, sb, so)
          ELSE InsertPos(sorted, pivot, mid + 1, right, sb, so)

RECURSIVE SortFrom(_, _, _, _)
SortFrom(sorted, rest, sb, so) ==
  IF rest = << >> THEN sorted
  ELSE LET pivot == Head(rest)
           pos == InsertPos(sorted, pivot, 0, Len(sorted), sb, so)
       IN SortFrom(SubSeq(sorted, 1, pos) \o <<pivot>>
                     \o SubSeq(sorted, pos + 1, Len(sorted)),
                   Tail(rest), sb, so)

\* the comparator puts s[k + 1] before s[k]
StepsDown(s, k, sb, so) == Comparator(s[k + 1], s[k], sb, so) < 0

\* the length of the leading run, k elements of which are known
RECURSIVE RunLength(_, _, _, _, _)
RunLength(s, k, descending, sb, so) ==
  IF k < Len(s) /\ StepsDown(s, k, sb, so) = descending
  THEN RunLength(s, k + 1, descending, sb, so)
  ELSE k

Reverse(s) == [i \in 1..Len(s) |-> s[Len(s) + 1 - i]]

Sort(s, sb, so) ==
  IF Len(s) < 2 THEN s
  ELSE LET descending == StepsDown(s, 1, sb, so)
           n == RunLength(s, 2, descending, sb, so)
           run == SubSeq(s, 1, n)
       IN SortFrom(IF descending THEN Reverse(run) ELSE run,
                   SubSeq(s, n + 1, Len(s)), sb, so)

\* filterAndSortTodos under the query spec (q, f, sb, so)
filterAndSortTodos(todoList, q, f, sb, so, clock) ==
  LET searched == IF q # << >>
                  THEN SelectSeq(todoList, LAMBDA t : MatchesSearch(t, q))
                  ELSE todoList
      filtered == SelectSeq(searched, LAMBDA t : MatchesFilter(t, f, clock))
  IN Sort(filtered, sb, so)

\* ---------------------------------------------------------- remote adapter
\* The hosted table is a sequence of rows in insertion order.  The service is
\* outside the repository: it gives new rows an id, completed = false and
\* both timestamps, re-stamps updated_at on update, and applies the filters
\* and the order that the request names.

\* the request parameters fetchTodos builds from the query spec
FetchParams(q, f, sb, so) ==
  [search |-> q,
   completed |-> IF f = "completed" THEN "true"
                 ELSE IF f \in {"active", "overdue", "high-priority"} THEN "false"
                 ELSE "unset",
   priority |-> IF f = "high-priority" THEN "high" ELSE "unset",
   sortBy |-> sb, sortOrder |-> so]

\* the row filters of todosAPI.getAll: eq priority, eq completed, ilike title
RowMatches(t, params) ==
  /\ params.priority = "unset" \/ t.priority = params.priority
  /\ params.completed = "unset" \/ t.completed = (params.completed = "true")
  /\ params.search = << >>
       \/ Includes(ToLowerCase(t.text), ToLowerCase(params.search))

\* the priority column is text: 'high' < 'low' < 'medium'
PriorityColumn(p) == CASE p = "high" -> 1 [] p = "low" -> 2 [] OTHER -> 3

\* column order of the service: text columns by their characters
ColumnGreater(a, b, sb) ==
  CASE sb = "priority" -> PriorityColumn(a.priority) > PriorityColumn(b.priority)
    [] sb = "text" -> StrLess(b.text, a.text)
    [] sb = "due_date" -> a.due_date > b.due_date
    [] sb = "updated_at" -> a.updated_at > b.updated_at
    [] OTHER -> a.created_at > b.created_at

\* query.order(sortBy, { ascending }): a stable insertion by column value
RECURSIVE OrderRows(_, _, _)
OrderRows(rows, sb, ascending) ==
  IF rows = << >> THEN << >>
  ELSE LET rest == OrderRows(Tail(rows), sb, ascending)
           h == Head(rows)
           before(t) == IF ascending THEN ColumnGreater(h, t, sb)
                        ELSE ColumnGreater(t, h, sb)
           n == Cardinality({i \in 1..Len(rest) :
                               \A j \in 1..i : before(rest[j])})
       IN SubSeq(rest, 1, n) \o <<h>> \o SubSeq(rest, n + 1, Len(rest))

\* todosAPI.getAll
getAll(rows, params) ==
  OrderRows(SelectSeq(rows, LAMBDA t : RowMatches(t, params)),
            params.sortBy, params.sortOrder # "desc")

\* todosAPI.getStats: the overview it returns (total, completed, pending, overdue)
getStats(rows, clock) ==
  LET total == Len(rows)
      completed == Len(SelectSeq(rows, LAMBDA t : t.completed))
  IN [total |-> total,
      active |-> Undefined,
      completed |-> completed,
      high_priority |-> Undefined,
      overdue |-> Len(SelectSeq(rows,
                     LAMBDA t : ~t.completed /\ t.due_date # Undefined
                                /\ t.due_date < clock)),
      pending |-> total - completed]

\* todosAPI.bulkOperation: only 'delete' and 'update' (with updates) act
apiBulkOperation(rows, action, todoIds, updates, clock) ==
  IF action = "delete"
  THEN SelectSeq(rows, LAMBDA t : t.id \notin todoIds)
  ELSE IF action = "update" /\ updates # NoUpdates
  THEN [i \in 1..Len(rows) |->
          IF rows[i].id \in todoIds
          THEN [Merge(rows[i], updates) EXCEPT !.updated_at = clock]
          ELSE rows[i]]
  ELSE rows

\* todosAPI.create: the row the service inserts and returns
apiCreate(i, txt, prio, clock) ==
  Todo(i, txt, << >>, FALSE, prio, Undefined, clock, clock)

\* todosAPI.update: the rows after update(updates).eq('id', id)
apiUpdate(rows, i, updates, clock) ==
  [k \in 1..Len(rows) |->
     IF rows[k].id = i
     THEN [Merge(rows[k], updates) EXCEPT !.updated_at = clock]
     ELSE rows[k]]

\* todosAPI.delete: the rows after delete().eq('id', id)
apiDelete(rows, i) == SelectSeq(rows, LAMBDA t : t.id # i)

\* ------------------------------------------------------------------- state
VARIABLES
  user,           \* useAuth: a user is signed in (user !== null)
  isGuest,        \* useAuth: guest mode
  slot,           \* localStorage['todoflow_guest_todos'], parsed
  remote,         \* the rows of the hosted 'todos' table
  todos,          \* useTodos: the projection
  stats,          \* useTodos: the stats snapshot
  filter,         \* useTodos: status filter
  searchQuery,    \* useTodos: search string
  sortBy,         \* useTodos: sort key
  sortOrder,      \* useTodos: sort direction
  loading,        \* useTodos: loading flag
  selectedTodos,  \* useTodos: ids marked for a bulk action
  effectPending,  \* the fetch effect is scheduled and has not run yet
  now,            \* the clock
  slotKind,       \* what localStorage holds under the guest key
  persisted,      \* which of the session keys localStorage holds
  flights,        \* the calls that are suspended at an await, oldest first
  last            \* the handler that ran last, its arguments and its outcome

vars == <<user, isGuest, slot, remote, todos, stats, filter, searchQuery,
          sortBy, sortOrder, loading, selectedTodos, effectPending, now,
          slotKind, persisted, flights, last>>

auth == <<user, isGuest, persisted>>
query == <<filter, searchQuery, sortBy, sortOrder>>

\* useState<TodoStats>({ total: 0, active: 0, ... })
InitialStats ==
  [total |-> 0, active |-> 0, completed |-> 0, high_priority |-> 0,
   overdue |-> 0, pending |-> Undefined]

\* what a handler leaves in `last`
Outcome(op, guest, result, calledRemote, id, ids, text, action) ==
  [op |-> op, guest |-> guest, result |-> result, remote |-> calledRemote,
   id |-> id, ids |-> ids, text |-> text, action |-> action, prev |-> << >>,
   swallowed |-> FALSE]

\* (prev: the stored tasks an update or a bulk action matched, as they were
\* before it ran; swallowed: a request of fetchTodos or fetchStats failed
\* inside the handler and was caught there)

\* the task with this id in a store, as a sequence of at most one element
Stored(store, i) == SelectSeq(store, LAMBDA t : t.id = i)
Matched(store, todoIds) == SelectSeq(store, LAMBDA t : t.id \in todoIds)

NoId == Undefined

\* localStorage without todoflow_token, todoflow_user and todoflow_guest
NoSession == [token |-> FALSE, user |-> FALSE, guest |-> FALSE]

\* localStorage.getItem(GUEST_TODOS_KEY): null, a string JSON.parse rejects, or
\* the JSON of an array of tasks (then `slot` is that array; otherwise `slot`
\* is empty)
SlotKinds == {"absent", "unparsable", "array"}

\* `storedTodos ? JSON.parse(storedTodos) : []` returns
Parses == slotKind # "unparsable"

\* what the catch block of a guest mutator rethrows: the error of
\* localStorage.setItem, or the SyntaxError of JSON.parse before it
WriteError == IF Parses THEN "StorageError" ELSE "SyntaxError"

Init ==
  /\ user = FALSE
  /\ isGuest = FALSE
  /\ slot = << >>
  /\ slotKind = "absent"
  /\ persisted = NoSession
  /\ flights = << >>
  /\ remote = << >>
  /\ todos = << >>
  /\ stats = InitialStats
  /\ filter = "all"
  /\ searchQuery = << >>
  /\ sortBy = "created_at"
  /\ sortOrder = "desc"
  /\ loading = FALSE
  /\ selectedTodos = {}
  /\ effectPending = TRUE
  /\ now = 1
  /\ last = Outcome("init", FALSE, "ok", FALSE, NoId, {}, << >>, "")

\* ----------------------------------------------------------------- fetches
\* fetchTodos, guest branch: the projection it sets from the slot
GuestFetchTodos(stored) ==
  filterAndSortTodos(stored, searchQuery, filter, sortBy, sortOrder, now)

\* fetchTodos, guest branch, with a catch block that leaves the projection
\* as it is
GuestLoadTodosKeep ==
  IF Parses THEN GuestFetchTodos(slot) ELSE todos

\* fetchTodos, guest branch, run on what localStorage holds: a SyntaxError of
\* JSON.parse is caught and the projection set to []
GuestLoadTodos ==
  IF Parses THEN GuestFetchTodos(slot) ELSE << >>

\* fetchTodos, authenticated branch: the projection after the request
\* (a failed request is caught and leaves the projection as it is)
RemoteFetchTodos(rows, ok, current) ==
  IF ok THEN getAll(rows, FetchParams(searchQuery, filter, sortBy, sortOrder))
  ELSE current

\* fetchStats computing the guest stats from the filtered view
GuestFetchStatsFiltered(stored) ==
  calculateGuestStats(
    filterAndSortTodos(stored, searchQuery, filter, sortBy, sortOrder, now), now)

\* fetchStats, guest branch
GuestFetchStats(stored) == calculateGuestStats(stored, now)

\* fetchStats, guest branch, run on what localStorage holds: a SyntaxError is
\* caught and logged
GuestLoadStats ==
  IF Parses THEN GuestFetchStats(slot) ELSE stats

\* fetchStats, authenticated branch (a failed request is caught)
RemoteFetchStats(rows, ok, current) ==
  IF ok THEN getStats(rows, now) ELSE current

\* ------------------------------------------------------------------ session
\* login / register: the request may fail, and so may each setItem after it;
\* whatever fails is rethrown and the user is set only when nothing did
Login(E) ==
  /\ ~user /\ ~isGuest
  /\ \E ok, okToken, okUser \in E :
       /\ user' = (ok /\ okToken /\ okUser)
       /\ persisted' =
            IF ~ok \/ ~okToken THEN persisted
            ELSE IF ~okUser THEN [persisted EXCEPT !.token = TRUE]
            ELSE [token |-> TRUE, user |-> TRUE, guest |-> FALSE]
       /\ last' = Outcome("login", isGuest,
                          IF ~ok THEN "RemoteError"
                          ELSE IF ~okToken \/ ~okUser THEN "StorageError"
                          ELSE "ok",
                          TRUE, NoId, {}, << >>, "")
  /\ isGuest' = FALSE
  /\ UNCHANGED <<flights, slot, slotKind, remote, todos, stats, query, loading,
                 selectedTodos, effectPending, now>>

\* logout: isGuest is a dependency of the fetch effect, user is not
Logout ==
  /\ user \/ isGuest
  /\ persisted' = NoSession
  /\ user' = FALSE
  /\ isGuest' = FALSE
  /\ effectPending' = (effectPending \/ isGuest)
  /\ last' = Outcome("logout", isGuest, "ok", FALSE, NoId, {}, << >>, "")
  /\ UNCHANGED <<flights, slot, slotKind, remote, todos, stats, query,
                 loading, selectedTodos, now>>

\* skipAuth, offered by the AuthPage
SkipAuth ==
  /\ ~user /\ ~isGuest
  /\ persisted' = [persisted EXCEPT !.guest = TRUE]
  /\ isGuest' = TRUE
  /\ effectPending' = TRUE
  /\ last' = Outcome("skipAuth", isGuest, "ok", FALSE, NoId, {}, << >>, "")
  /\ UNCHANGED <<user, flights, slot, slotKind, remote, todos, stats, query,
                 loading, selectedTodos, now>>

\* The page is loaded again: the hooks start from their initial state and
\* initAuth restores the session from localStorage.  A guest flag wins; a
\* token with a stored user signs the user in unless authAPI.verify rejects,
\* which removes both keys.
InitAuth(E) ==
  /\ \E verified \in E :
       LET signedIn == ~persisted.guest /\ persisted.token /\ persisted.user
       IN /\ isGuest' = persisted.guest
          /\ user' = (signedIn /\ verified)
          /\ persisted' = IF signedIn /\ ~verified
                          THEN [persisted EXCEPT !.token = FALSE, !.user = FALSE]
                          ELSE persisted
          /\ last' = Outcome("initAuth", persisted.guest, "ok", signedIn, NoId,
                             {}, << >>, "")
  /\ todos' = << >>
  /\ stats' = InitialStats
  /\ filter' = "all"
  /\ searchQuery' = << >>
  /\ sortBy' = "created_at"
  /\ sortOrder' = "desc"
  /\ loading' = FALSE
  /\ selectedTodos' = {}
  /\ effectPending' = TRUE
  /\ flights' = << >>
  /\ UNCHANGED <<slot, slotKind, remote, now>>

\* useEffect(fetchData, [filter, searchQuery, sortBy, sortOrder, isGuest])
RunEffect(E) ==
  /\ effectPending
  /\ effectPending' = FALSE
  /\ loading' = FALSE
  /\ IF isGuest
     THEN /\ todos' = GuestLoadTodos
          /\ stats' = GuestLoadStats
          /\ last' = Outcome("effect", TRUE, "ok", FALSE, NoId, {}, << >>, "")
     ELSE \E okList, okStats \in E :
          /\ todos' = RemoteFetchTodos(remote, okList, todos)
          /\ stats' = RemoteFetchStats(remote, okStats, stats)
          /\ last' = [Outcome("effect", FALSE, "ok", TRUE, NoId, {}, << >>, "")
                        EXCEPT !.swallowed = ~okList \/ ~okStats]
  /\ UNCHANGED <<auth, flights, slot, slotKind, remote, query, selectedTodos, now>>

\* ---------------------------------------------------------------- query spec
\* The handlers below are the UI's: React runs a scheduled effect before it
\* handles the next event, so they wait for it.
Idle == ~effectPending /\ (user \/ isGuest)

SetFilter(f) ==
  /\ Idle /\ f # filter
  /\ filter' = f
  /\ effectPending' = TRUE
  /\ last' = Outcome("setFilter", isGuest, "ok", FALSE, NoId, {}, << >>, f)
  /\ UNCHANGED <<auth, flights, slot, slotKind, remote, todos, stats, searchQuery, sortBy,
                 sortOrder, loading, selectedTodos, now>>

SetSearchQuery(q) ==
  /\ Idle /\ q # searchQuery
  /\ searchQuery' = q
  /\ effectPending' = TRUE
  /\ last' = Outcome("setSearchQuery", isGuest, "ok", FALSE, NoId, {}, q, "")
  /\ UNCHANGED <<auth, flights, slot, slotKind, remote, todos, stats, filter, sortBy, sortOrder,
                 loading, selectedTodos, now>>

SetSortBy(k) ==
  /\ Idle /\ k # sortBy
  /\ sortBy' = k
  /\ effectPending' = TRUE
  /\ last' = Outcome("setSortBy", isGuest, "ok", FALSE, NoId, {}, << >>, k)
  /\ UNCHANGED <<auth, flights, slot, slotKind, remote, todos, stats, filter, searchQuery,
                 sortOrder, loading, selectedTodos, now>>

SetSortOrder ==
  /\ Idle
  /\ sortOrder' = IF sortOrder = "asc" THEN "desc" ELSE "asc"
  /\ effectPending' = TRUE
  /\ last' = Outcome("setSortOrder", isGuest, "ok", FALSE, NoId, {}, << >>,
                     sortOrder')
  /\ UNCHANGED <<auth, flights, slot, slotKind, remote, todos, stats, filter, searchQuery, sortBy,
                 loading, selectedTodos, now>>

\* a millisecond passes
Tick ==
  /\ now < MaxTime
  /\ now' = now + 1
  /\ UNCHANGED <<auth, flights, slot, slotKind, remote, todos, stats, query, loading,
                 selectedTodos, effectPending, last>>

\* ------------------------------------------------------------------ mutators
\* generateGuestId / the id the service assigns: an id no task or selection
\* carries
UsedIds == IdsOf(slot) \cup IdsOf(remote) \cup IdsOf(todos) \cup selectedTodos
HasFreshId == Ids \ UsedIds # {}
FreshId == CHOOSE i \in Ids \ UsedIds : \A j \in Ids \ UsedIds : i <= j

\* the Todo addTodo builds in guest mode
\* addTodo's guest record with the text stored as typed (text: text.trim()
\* dropped)
NewGuestTodoUntrimmed(text, priority) ==
  Todo(FreshId, text, << >>, FALSE, priority, Undefined, now, now)

NewGuestTodo(text, priority) ==
  Todo(FreshId, Trim(text), << >>, FALSE, priority, Undefined, now, now)

\* addTodo(text, priority)
AddTodoBody(text, priority, E) ==
  /\ HasFreshId
  /\ IF isGuest
     THEN /\ \E stored \in E :
               IF stored /\ Parses
               THEN /\ slotKind' = "array"
                    /\ slot' = <<NewGuestTodo(text, priority)>> \o slot
                    /\ todos' = GuestFetchTodos(slot')
                    /\ stats' = GuestFetchStats(slot')
                    /\ last' = Outcome("add", TRUE, "ok", FALSE, FreshId, {},
                                       text, priority)
               ELSE /\ last' = Outcome("add", TRUE, WriteError, FALSE,
                                       NoId, {}, text, priority)
                    /\ UNCHANGED <<slot, slotKind, todos, stats>>
          /\ UNCHANGED remote
     ELSE /\ \E ok, okStats \in E :
               IF ok
               THEN LET newTodo == apiCreate(FreshId, Trim(text), priority, now)
                    IN /\ remote' = Append(remote, newTodo)
                       /\ todos' = <<newTodo>> \o todos
                       /\ stats' = RemoteFetchStats(remote', okStats, stats)
                       /\ last' = [Outcome("add", FALSE, "ok", TRUE, FreshId,
                                           {}, text, priority)
                                     EXCEPT !.swallowed = ~okStats]
               ELSE /\ last' = Outcome("add", FALSE, "RemoteError", TRUE,
                                       NoId, {}, text, priority)
                    /\ UNCHANGED <<remote, todos, stats>>
          /\ UNCHANGED <<slot, slotKind>>
  /\ UNCHANGED <<auth, flights, query, loading, selectedTodos, effectPending, now>>

AddTodo(text, priority, E) == Idle /\ AddTodoBody(text, priority, E)

\* TodoInput.handleSubmit: a blank text never reaches addTodo
HandleSubmit(text, priority, E) ==
  /\ Idle
  /\ IF Trim(text) # << >>
     THEN AddTodoBody(text, priority, E)
     ELSE /\ last' = Outcome("submit", isGuest, "silent", FALSE, NoId, {},
                             text, priority)
          /\ UNCHANGED <<auth, flights, slot, slotKind, remote, todos, stats, query, loading,
                         selectedTodos, effectPending, now>>

\* updateTodo, from `const updatedTodo = await todosAPI.update(id, updates)`
\* on; fetchStats is the closure's, so it follows isGuest
RemoteUpdateBody(op, id, updates, E) ==
  /\ \E ok, okStats \in E :
       IF ok /\ id \in IdsOf(remote)
       THEN /\ remote' = apiUpdate(remote, id, updates, now)
            /\ todos' = [k \in 1..Len(todos) |->
                           IF todos[k].id = id THEN Head(Stored(remote', id))
                           ELSE todos[k]]
            /\ stats' = IF isGuest THEN GuestFetchStats(slot)
                        ELSE RemoteFetchStats(remote', okStats, stats)
            /\ last' = [Outcome(op, isGuest, "ok", TRUE, id, {}, << >>, "")
                          EXCEPT !.prev = Stored(remote, id),
                                 !.swallowed = ~isGuest /\ ~okStats]
       ELSE /\ last' = Outcome(op, isGuest,
                               IF ok THEN "NotFound" ELSE "RemoteError",
                               TRUE, id, {}, << >>, "")
            /\ UNCHANGED <<remote, todos, stats>>
  /\ UNCHANGED <<slot, slotKind>>

\* the record the guest branch writes at todoIndex
\* the guest patch without its updated_at stamp
GuestPatchNoStamp(t, updates) == Merge(t, updates)

GuestPatch(t, updates) == [Merge(t, updates) EXCEPT !.updated_at = now]

\* updateTodo(id, updates): the guest branch returns only when it finds the id
UpdateTodoBody(op, id, updates, E) ==
  /\ IF isGuest /\ (~Parses \/ FindIndex(slot, id) # 0)
     THEN /\ \E stored \in E :
               IF stored /\ Parses
               THEN /\ slotKind' = "array"
                    /\ slot' = [slot EXCEPT ![FindIndex(slot, id)] =
                                  GuestPatch(@, updates)]
                    /\ todos' = GuestFetchTodos(slot')
                    /\ stats' = GuestFetchStats(slot')
                    /\ last' = [Outcome(op, TRUE, "ok", FALSE, id, {}, << >>, "")
                                  EXCEPT !.prev = Stored(slot, id)]
               ELSE /\ last' = Outcome(op, TRUE, WriteError, FALSE, id, {},
                                       << >>, "")
                    /\ UNCHANGED <<slot, slotKind, todos, stats>>
          /\ UNCHANGED remote
     ELSE RemoteUpdateBody(op, id, updates, E)
  /\ UNCHANGED <<auth, flights, query, loading, selectedTodos, effectPending, now>>

UpdateTodo(id, updates, E) == Idle /\ UpdateTodoBody("update", id, updates, E)

\* toggleTodo(id): looks the task up in the projection
ToggleTodo(id, E) ==
  /\ Idle
  /\ IF id \in IdsOf(todos)
     THEN UpdateTodoBody("toggle", id,
            [completed |-> ~todos[FindIndex(todos, id)].completed], E)
     ELSE /\ last' = Outcome("toggle", isGuest, "silent", FALSE, id, {}, << >>, "")
          /\ UNCHANGED <<auth, flights, slot, slotKind, remote, todos, stats, query, loading,
                         selectedTodos, effectPending, now>>

\* deleteTodo with the projection and the selection updated before the slot
\* is written (an optimistic update)
DeleteTodoOptimistic(id, E) ==
  /\ Idle
  /\ IF isGuest
     THEN /\ \E stored \in E :
               /\ selectedTodos' = selectedTodos \ {id}
               /\ todos' = SelectSeq(todos, LAMBDA t : t.id # id)
               /\ IF stored /\ Parses
                  THEN /\ slotKind' = "array"
                       /\ slot' = SelectSeq(slot, LAMBDA t : t.id # id)
                       /\ stats' = GuestFetchStats(slot')
                       /\ last' = Outcome("delete", TRUE, "ok", FALSE, id, {},
                                          << >>, "")
                  ELSE /\ last' = Outcome("delete", TRUE, WriteError, FALSE,
                                          id, {}, << >>, "")
                       /\ UNCHANGED <<slot, slotKind, stats>>
          /\ UNCHANGED remote
     ELSE /\ \E ok, okStats \in E :
               IF ok
               THEN /\ remote' = apiDelete(remote, id)
                    /\ todos' = SelectSeq(todos, LAMBDA t : t.id # id)
                    /\ selectedTodos' = selectedTodos \ {id}
                    /\ stats' = RemoteFetchStats(remote', okStats, stats)
                    /\ last' = [Outcome("delete", FALSE, "ok", TRUE, id, {},
                                        << >>, "")
                                  EXCEPT !.swallowed = ~okStats]
               ELSE /\ last' = Outcome("delete", FALSE, "RemoteError", TRUE,
                                       id, {}, << >>, "")
                    /\ UNCHANGED <<remote, selectedTodos, todos, stats>>
          /\ UNCHANGED <<slot, slotKind>>
  /\ UNCHANGED <<auth, flights, query, loading, effectPending, now>>

\* deleteTodo(id)
DeleteTodo(id, E) ==
  /\ Idle
  /\ IF isGuest
     THEN /\ \E stored \in E :
               IF stored /\ Parses
               THEN /\ slotKind' = "array"
                    /\ slot' = SelectSeq(slot, LAMBDA t : t.id # id)
                    /\ selectedTodos' = selectedTodos \ {id}
                    /\ todos' = GuestFetchTodos(slot')
                    /\ stats' = GuestFetchStats(slot')
                    /\ last' = Outcome("delete", TRUE, "ok", FALSE, id, {},
                                       << >>, "")
               ELSE /\ last' = Outcome("delete", TRUE, WriteError, FALSE,
                                       id, {}, << >>, "")
                    /\ UNCHANGED <<slot, slotKind, selectedTodos, todos, stats>>
          /\ UNCHANGED remote
     ELSE /\ \E ok, okStats \in E :
               IF ok
               THEN /\ remote' = apiDelete(remote, id)
                    /\ todos' = SelectSeq(todos, LAMBDA t : t.id # id)
                    /\ selectedTodos' = selectedTodos \ {id}
                    /\ stats' = RemoteFetchStats(remote', okStats, stats)
                    /\ last' = [Outcome("delete", FALSE, "ok", TRUE, id, {},
                                        << >>, "")
                                  EXCEPT !.swallowed = ~okStats]
               ELSE /\ last' = Outcome("delete", FALSE, "RemoteError", TRUE,
                                       id, {}, << >>, "")
                    /\ UNCHANGED <<remote, selectedTodos, todos, stats>>
          /\ UNCHANGED <<slot, slotKind>>
  /\ UNCHANGED <<auth, flights, query, loading, effectPending, now>>

\* bulkOperation, guest branch: the collection it writes back
\* the guest bulk branch with a delete that keeps no task at all (the filter
\* on todoIds dropped)
GuestBulkDeleteAll(stored, action, todoIds) ==
  IF action = "delete" THEN << >> ELSE stored

\* the guest bulk branch with a final else that deletes
GuestBulkElseDelete(stored, action, todoIds) ==
  IF action \in {"complete", "uncomplete"}
  THEN [k \in 1..Len(stored) |->
          IF stored[k].id \in todoIds
          THEN [stored[k] EXCEPT !.completed = (action = "complete"),
                                 !.updated_at = now]
          ELSE stored[k]]
  ELSE SelectSeq(stored, LAMBDA t : t.id \notin todoIds)

GuestBulk(stored, action, todoIds) ==
  CASE action = "delete" -> SelectSeq(stored, LAMBDA t : t.id \notin todoIds)
    [] action = "complete" ->
         [k \in 1..Len(stored) |->
            IF stored[k].id \in todoIds
            THEN [stored[k] EXCEPT !.completed = TRUE, !.updated_at = now]
            ELSE stored[k]]
    [] action = "uncomplete" ->
         [k \in 1..Len(stored) |->
            IF stored[k].id \in todoIds
            THEN [stored[k] EXCEPT !.completed = FALSE, !.updated_at = now]
            ELSE stored[k]]
    [] OTHER -> stored

\* the actions for which the guest branch calls localStorage.setItem
GuestBulkWrites(action) == action \in {"delete", "complete", "uncomplete"}

\* bulkOperation(action, todoIds, updates)
BulkOperationBody(action, todoIds, updates, E) ==
  /\ IF isGuest
     THEN /\ \E stored \in E :
               IF Parses /\ (stored \/ ~GuestBulkWrites(action))
               THEN /\ slotKind' = IF GuestBulkWrites(action) THEN "array" ELSE slotKind
                    /\ slot' = GuestBulk(slot, action, todoIds)
                    /\ todos' = GuestFetchTodos(slot')
                    /\ stats' = GuestFetchStats(slot')
                    /\ selectedTodos' = {}
                    /\ last' = [Outcome("bulk", TRUE, "ok", FALSE, NoId,
                                        todoIds, << >>, action)
                                  EXCEPT !.prev = Matched(slot, todoIds)]
               ELSE /\ last' = Outcome("bulk", TRUE, WriteError, FALSE,
                                       NoId, todoIds, << >>, action)
                    /\ UNCHANGED <<slot, slotKind, todos, stats, selectedTodos>>
          /\ UNCHANGED remote
     ELSE /\ \E ok, okList, okStats \in E :
               IF ok
               THEN /\ remote' = apiBulkOperation(remote, action, todoIds,
                                                  updates, now)
                    /\ todos' = RemoteFetchTodos(remote', okList, todos)
                    /\ stats' = RemoteFetchStats(remote', okStats, stats)
                    /\ selectedTodos' = {}
                    /\ last' = [Outcome("bulk", FALSE, "ok", TRUE, NoId,
                                        todoIds, << >>, action)
                                  EXCEPT !.prev = Matched(remote, todoIds),
                                         !.swallowed = ~okList \/ ~okStats]
               ELSE /\ last' = Outcome("bulk", FALSE, "RemoteError", TRUE,
                                       NoId, todoIds, << >>, action)
                    /\ UNCHANGED <<remote, todos, stats, selectedTodos>>
          /\ UNCHANGED <<slot, slotKind>>
  /\ UNCHANGED <<auth, flights, query, loading, effectPending, now>>

\* the action strings a caller passes: the three the UI sends, the 'update' of
\* the remote adapter and one that no branch knows
BulkActions == {"delete", "complete", "uncomplete", "update", "archive"}
UiBulkActions == {"complete", "uncomplete", "delete"}

\* the UI passes no updates
\* the updates argument a caller passes along with an action, or leaves out
BulkUpdates(action) ==
  IF action = "update" THEN {NoUpdates, [completed |-> TRUE]} ELSE {NoUpdates}

BulkOperation(action, todoIds, updates, E) ==
  Idle /\ BulkOperationBody(action, todoIds, updates, E)

\* App.handleBulkAction: the buttons of TodoFilters
HandleBulkAction(action, E) ==
  /\ Idle
  /\ selectedTodos # {}
  /\ BulkOperationBody(action, selectedTodos, NoUpdates, E)

\* clearCompleted taking the completed tasks of the stored collection instead
\* of those of the projection
ClearCompletedStored(E) ==
  /\ Idle
  /\ LET store == IF isGuest THEN slot ELSE remote
         completedIds == IdsOf(SelectSeq(store, LAMBDA t : t.completed))
     IN IF completedIds # {}
        THEN BulkOperationBody("delete", completedIds, NoUpdates, E)
        ELSE /\ last' = Outcome("clearCompleted", isGuest, "silent", FALSE,
                                NoId, {}, << >>, "")
             /\ UNCHANGED <<auth, flights, slot, slotKind, remote, todos, stats, query, loading,
                            selectedTodos, effectPending, now>>

\* clearCompleted: the completed tasks of the projection
ClearCompleted(E) ==
  /\ Idle
  /\ LET completedIds == IdsOf(SelectSeq(todos, LAMBDA t : t.completed))
     IN IF completedIds # {}
        THEN BulkOperationBody("delete", completedIds, NoUpdates, E)
        ELSE /\ last' = Outcome("clearCompleted", isGuest, "silent", FALSE,
                                NoId, {}, << >>, "")
             /\ UNCHANGED <<auth, flights, slot, slotKind, remote, todos, stats, query, loading,
                            selectedTodos, effectPending, now>>

\* ------------------------------------------------------------------ selection
\* toggleSelectTodo(id), from the checkbox of a displayed task
ToggleSelectTodo(id) ==
  /\ Idle
  /\ id \in IdsOf(todos)
  /\ selectedTodos' = IF id \in selectedTodos THEN selectedTodos \ {id}
                      ELSE selectedTodos \cup {id}
  /\ last' = Outcome("select", isGuest, "ok", FALSE, id, {}, << >>, "")
  /\ UNCHANGED <<auth, flights, slot, slotKind, remote, todos, stats, query, loading,
                 effectPending, now>>

\* selectAllTodos
SelectAllTodos ==
  /\ Idle
  /\ selectedTodos' = IdsOf(todos)
  /\ last' = Outcome("selectAll", isGuest, "ok", FALSE, NoId, {}, << >>, "")
  /\ UNCHANGED <<auth, flights, slot, slotKind, remote, todos, stats, query, loading,
                 effectPending, now>>

\* clearSelection
ClearSelection ==
  /\ Idle
  /\ selectedTodos' = {}
  /\ last' = Outcome("clearSelection", isGuest, "ok", FALSE, NoId, {}, << >>, "")
  /\ UNCHANGED <<auth, flights, slot, slotKind, remote, todos, stats, query, loading,
                 effectPending, now>>

\* ------------------------------------------------------------ calls in flight
\* The handlers above run a call from its start to its return.  Below, a call
\* of the authenticated branch is suspended at each await of a request: the
\* request is sent, the service serves it, and the continuation runs when the
\* response arrives; the responses of different calls arrive in any order.

\* a suspended call: what it is (kind), where it waits (pc), the arguments it
\* captured, and the response once the service has answered
Flight(kind, pc, params, id, updates) ==
  [kind |-> kind, pc |-> pc, params |-> params, id |-> id, updates |-> updates,
   data |-> << >>, ok |-> TRUE, overview |-> InitialStats, okStats |-> TRUE]

\* the calls that have not returned yet
AllDone == \A k \in 1..Len(flights) : flights[k].pc = "done"
Running == IF AllDone THEN << >> ELSE flights
Room == Len(Running) < MaxFlights

\* the fetch effect, authenticated branch, up to `await todosAPI.getAll(params)`
IssueFetch ==
  /\ effectPending /\ ~isGuest /\ Room
  /\ effectPending' = FALSE
  /\ loading' = TRUE
  /\ flights' = Append(Running,
                  Flight("list", "sent",
                         FetchParams(searchQuery, filter, sortBy, sortOrder),
                         NoId, NoUpdates))
  /\ last' = Outcome("issue", FALSE, "ok", TRUE, Len(flights'), {}, << >>,
                     "list")
  /\ UNCHANGED <<auth, slot, slotKind, remote, todos, stats, query,
                 selectedTodos, now>>

\* updateTodo, authenticated branch, up to `await todosAPI.update(id, updates)`
IssueUpdate(id, updates) ==
  /\ Idle /\ ~isGuest /\ Room
  /\ flights' = Append(Running,
                  Flight("update", "sent",
                         FetchParams(<< >>, "all", "created_at", "desc"),
                         id, updates))
  /\ last' = Outcome("issue", FALSE, "ok", TRUE, Len(flights'), {}, << >>,
                     "update")
  /\ UNCHANGED <<auth, slot, slotKind, remote, todos, stats, query, loading,
                 selectedTodos, effectPending, now>>

\* the service answers the request a call waits for
Serve(k, E) ==
  /\ k \in 1..Len(flights)
  /\ flights[k].pc \in {"sent", "statsSent"}
  /\ \E ok \in E :
       LET f == flights[k]
           found == f.id \in IdsOf(remote)
       IN /\ remote' = IF f.pc = "sent" /\ f.kind = "update" /\ ok /\ found
                        THEN apiUpdate(remote, f.id, f.updates, now)
                        ELSE remote
          /\ flights' =
               [flights EXCEPT ![k] =
                  CASE f.pc = "statsSent" ->
                         [f EXCEPT !.pc = "statsServed", !.okStats = ok,
                                   !.overview = IF ok THEN getStats(remote, now)
                                                ELSE InitialStats]
                    [] f.pc = "sent" /\ f.kind = "list" ->
                         [f EXCEPT !.pc = "served", !.ok = ok,
                                   !.data = IF ok THEN getAll(remote, f.params)
                                            ELSE << >>]
                    [] OTHER ->
                         [f EXCEPT !.pc = "served", !.ok = ok /\ found,
                                   !.data = IF ok /\ found
                                            THEN Stored(remote', f.id)
                                            ELSE << >>]]
          /\ last' = Outcome("serve", FALSE, "ok", TRUE, k, {}, << >>, f.kind)
  /\ UNCHANGED <<auth, slot, slotKind, todos, stats, query, loading,
                 selectedTodos, effectPending, now>>

\* a continuation that writes a response only when it answers the call that
\* was started last
ApplyResponseOfLatest(f, current) ==
  IF f # flights[Len(flights)] THEN current
  ELSE IF f.kind = "list" THEN f.data
  ELSE [i \in 1..Len(current) |->
          IF current[i].id = f.id THEN Head(f.data) ELSE current[i]]

\* setTodos(data) of fetchTodos, setTodos(prev => prev.map(...)) of updateTodo
ApplyResponse(f, current) ==
  IF f.kind = "list" THEN f.data
  ELSE [i \in 1..Len(current) |->
          IF current[i].id = f.id THEN Head(f.data) ELSE current[i]]

\* the response arrives and the call runs on to its next await or its return:
\* fetchTodos sets the projection and, in its finally, clears the loading
\* flag; updateTodo maps the row into the projection, or rethrows; both go on
\* to fetchStats, which sets the stats or logs the error
Resolve(k) ==
  /\ k \in 1..Len(flights)
  /\ flights[k].pc \in {"served", "statsServed"}
  /\ LET f == flights[k]
     IN IF f.pc = "served"
        THEN /\ todos' = IF f.ok THEN ApplyResponse(f, todos) ELSE todos
             /\ loading' = IF f.kind = "list" THEN FALSE ELSE loading
             /\ flights' = [flights EXCEPT ![k].pc =
                              IF f.kind = "update" /\ ~f.ok THEN "done"
                              ELSE "statsSent"]
             /\ last' = Outcome("resolve", FALSE,
                                IF f.ok \/ f.kind = "list" THEN "ok"
                                ELSE "RemoteError",
                                TRUE, k, {}, << >>, f.kind)
             /\ UNCHANGED stats
        ELSE /\ stats' = IF f.okStats THEN f.overview ELSE stats
             /\ flights' = [flights EXCEPT ![k].pc = "done"]
             /\ last' = Outcome("resolve", FALSE, "ok", TRUE, k, {}, << >>,
                                "stats")
             /\ UNCHANGED <<todos, loading>>
  /\ UNCHANGED <<auth, slot, slotKind, remote, query, selectedTodos,
                 effectPending, now>>

\* The guest branches have no await between getItem and setItem: a call runs
\* from its start through the write and the synchronous body of fetchTodos to
\* `await fetchTodos()`, where it is suspended; it resumes into fetchStats up
\* to `await fetchStats()`, and resumes again to return.  Other calls may
\* start or resume in between.

\* a call of a guest mutator
GuestCall(kind, id, ids, text, action, updates) ==
  [kind |-> kind, id |-> id, ids |-> ids, text |-> text, action |-> action,
   updates |-> updates]

\* a guest write that takes the in-memory projection as the collection to
\* modify instead of reading the slot
GuestWriteFromProjection(call, stored) ==
  CASE call.kind = "add" ->
         <<NewGuestTodo(call.text, call.action)>> \o todos
    [] call.kind = "update" ->
         IF FindIndex(todos, call.id) = 0 THEN todos
         ELSE [todos EXCEPT ![FindIndex(todos, call.id)] =
                 GuestPatch(@, call.updates)]
    [] call.kind = "delete" -> SelectSeq(todos, LAMBDA t : t.id # call.id)
    [] OTHER -> GuestBulk(todos, call.action, call.ids)

\* what a guest mutator passes to localStorage.setItem, from the collection
\* it has just read
GuestWrite(call, stored) ==
  CASE call.kind = "add" ->
         <<NewGuestTodo(call.text, call.action)>> \o stored
    [] call.kind = "update" ->
         [stored EXCEPT ![FindIndex(stored, call.id)] =
            GuestPatch(@, call.updates)]
    [] call.kind = "delete" -> SelectSeq(stored, LAMBDA t : t.id # call.id)
    [] OTHER -> GuestBulk(stored, call.action, call.ids)

\* a guest mutator from its start to `await fetchTodos()`; an update of an id
\* the slot does not hold leaves the guest branch and is the request of the
\* authenticated branch
GuestStart(call, E) ==
  /\ Idle /\ isGuest /\ Parses /\ Room
  /\ call.kind = "add" => HasFreshId
  /\ IF call.kind = "update" /\ FindIndex(slot, call.id) = 0
     THEN UpdateTodoBody("update", call.id, call.updates, E)
     ELSE \E stored \in E :
          LET written == stored \/ (call.kind = "bulk"
                                     /\ ~GuestBulkWrites(call.action))
          IN IF written
             THEN /\ slot' = GuestWrite(call, slot)
                  /\ slotKind' = IF call.kind = "bulk"
                                    /\ ~GuestBulkWrites(call.action)
                                 THEN slotKind ELSE "array"
                  /\ selectedTodos' = IF call.kind = "delete"
                                      THEN selectedTodos \ {call.id}
                                      ELSE selectedTodos
                  /\ todos' = GuestFetchTodos(slot')
                  /\ flights' = Append(Running,
                                  Flight(call.kind, "fetched",
                                         FetchParams(<< >>, "all", "created_at",
                                                     "desc"),
                                         call.id, call.updates))
                  /\ last' = Outcome(call.kind, TRUE, "pending", FALSE,
                                     IF call.kind = "add" THEN FreshId
                                     ELSE call.id,
                                     call.ids, call.text, call.action)
                  /\ UNCHANGED <<auth, remote, stats, query, loading,
                                 effectPending, now>>
             ELSE /\ last' = Outcome(call.kind, TRUE, WriteError, FALSE,
                                     call.id, call.ids, call.text, call.action)
                  /\ UNCHANGED <<auth, flights, slot, slotKind, remote, todos,
                                 stats, query, loading, selectedTodos,
                                 effectPending, now>>

\* a suspended guest call resumes: into fetchStats, and then to its return
\* (bulkOperation clears the selection on the way)
GuestResume(k) ==
  /\ k \in 1..Len(flights)
  /\ flights[k].pc \in {"fetched", "statsDone"}
  /\ LET f == flights[k]
     IN IF f.pc = "fetched"
        THEN /\ stats' = GuestLoadStats
             /\ flights' = [flights EXCEPT ![k].pc = "statsDone"]
             /\ UNCHANGED selectedTodos
        ELSE /\ selectedTodos' = IF f.kind = "bulk" THEN {} ELSE selectedTodos
             /\ flights' = [flights EXCEPT ![k].pc = "done"]
             /\ UNCHANGED stats
  /\ last' = Outcome("resume", TRUE, "ok", FALSE, k, {}, << >>,
                     flights[k].kind)
  /\ UNCHANGED <<auth, slot, slotKind, remote, todos, query, loading,
                 effectPending, now>>

\* ------------------------------------------------------------- specification
\* The outcomes of a call to the environment (localStorage.setItem, a request
\* to the service): TRUE is success.  A specification names the set it draws
\* them from.
Reliable == {TRUE}
Unreliable == BOOLEAN

\* addTodo's default priority
DefaultPriority == "medium"
UiFilters == {"all", "active", "completed"}
Updates == {[completed |-> TRUE]}

\* the session provider's transitions
Session(E) ==
  \/ Login(E)
  \/ Logout
  \/ SkipAuth

\* the status buttons of the filter bar
QuerySetters ==
  \/ \E f \in UiFilters : SetFilter(f)

\* the facade's mutators and the UI handlers in front of them
Mutators(E) ==
  \/ \E text \in Titles : AddTodo(text, DefaultPriority, E)
  \/ \E text \in Titles : HandleSubmit(text, DefaultPriority, E)
  \/ \E id \in Ids, updates \in Updates : UpdateTodo(id, updates, E)
  \/ \E id \in Ids : ToggleTodo(id, E)
  \/ \E id \in Ids : DeleteTodo(id, E)
  \/ \E action \in BulkActions, todoIds \in SUBSET Ids :
       \E updates \in BulkUpdates(action) :
          BulkOperation(action, todoIds, updates, E)
  \/ \E action \in UiBulkActions : HandleBulkAction(action, E)
  \/ ClearCompleted(E)

Selection ==
  \/ \E id \in Ids : ToggleSelectTodo(id)
  \/ SelectAllTodos
  \/ ClearSelection

\* The facade and the session with a reliable environment, within one
\* millisecond.
Next ==
  \/ Session(Reliable)
  \/ RunEffect(Reliable)
  \/ QuerySetters
  \/ Mutators(Reliable)
  \/ Selection

Spec == Init /\ [][Next]_vars

\* The same facade with the clock running: the handlers that stamp a task, the
\* status filter and the passing of time.
NextTime ==
  \/ Session(Reliable)
  \/ RunEffect(Reliable)
  \/ QuerySetters
  \/ \E text \in Titles : AddTodo(text, DefaultPriority, Reliable)
  \/ \E id \in Ids : ToggleTodo(id, Reliable)
  \/ Tick

SpecTime == Init /\ [][NextTime]_vars

\* The query engine and the two fetches on given collections: a session,
\* guest or signed in, starts with a stored collection of up to MaxTasks of
\* the sample tasks below, at clock reading 2, and only changes the query
\* spec.  The samples: a task found by its description only and overdue; a
\* completed task with a past due date; a task without due date; a task
\* with a due date to come.
SampleA == Todo(1, <<"a">>, <<"b">>, FALSE, "low", 1, 1, 1)
SampleB == Todo(2, <<"B">>, << >>, TRUE, "high", 1, 1, 2)
SampleC == Todo(3, <<"a", "b">>, << >>, FALSE, "medium", Undefined, 2, 2)
SampleD == Todo(4, <<"A">>, << >>, FALSE, "high", 3, 1, 1)
Samples == {SampleA, SampleB, SampleC, SampleD}

Collections ==
  {c \in UNION {[1..n -> Samples] : n \in 0..MaxTasks} :
     \A i, j \in 1..Len(c) : i < j => c[i].id # c[j].id}

InitQuery ==
  \E coll \in Collections, guest \in BOOLEAN :
     /\ user = ~guest
     /\ isGuest = guest
     /\ slot = IF guest THEN coll ELSE << >>
     /\ slotKind = IF guest THEN "array" ELSE "absent"
     /\ persisted = [token |-> ~guest, user |-> ~guest, guest |-> guest]
     /\ flights = << >>
     /\ remote = IF guest THEN << >> ELSE coll
     /\ todos = << >>
     /\ stats = InitialStats
     /\ filter = "all"
     /\ searchQuery = << >>
     /\ sortBy = "created_at"
     /\ sortOrder = "desc"
     /\ loading = FALSE
     /\ selectedTodos = {}
     /\ effectPending = TRUE
     /\ now = 2
     /\ last = Outcome("init", guest, "ok", FALSE, NoId, {}, << >>, "")

NextQuery ==
  \/ RunEffect(Reliable)
  \/ \E f \in FilterTypes : SetFilter(f)
  \/ \E q \in SearchQueries : SetSearchQuery(q)
  \/ \E k \in SortTypes : SetSortBy(k)
  \/ SetSortOrder

SpecQuery == InitQuery /\ [][NextQuery]_vars

\* A guest session whose callers also pass updates that carry an id field
\* (updates: Partial<Todo>); it stores at most MaxId tasks.
IdUpdates == {[completed |-> TRUE], [id |-> 1], [id |-> 2]}

NextIds ==
  \/ SkipAuth
  \/ RunEffect(Reliable)
  \/ /\ Len(slot) < MaxId
     /\ AddTodo(TitleB, DefaultPriority, Reliable)
  \/ \E id \in Ids, updates \in IdUpdates : UpdateTodo(id, updates, Reliable)
  \/ \E id \in Ids : ToggleTodo(id, Reliable)
  \/ \E id \in Ids : DeleteTodo(id, Reliable)
  \/ \E action \in UiBulkActions, todoIds \in SUBSET Ids :
       BulkOperation(action, todoIds, NoUpdates, Reliable)

SpecIds == Init /\ [][NextIds]_vars

\* The facade with an environment that fails: localStorage.setItem throws,
\* requests to the service are rejected.
NextFaults ==
  \/ Session(Reliable)
  \/ RunEffect(Unreliable)
  \/ AddTodo(TitleB, DefaultPriority, Unreliable)
  \/ \E id \in Ids, updates \in Updates : UpdateTodo(id, updates, Unreliable)
  \/ \E id \in Ids : DeleteTodo(id, Unreliable)
  \/ \E action \in UiBulkActions : HandleBulkAction(action, Unreliable)
  \/ \E id \in Ids : ToggleSelectTodo(id)

SpecFaults == Init /\ [][NextFaults]_vars

\* The facade started in a browser whose localStorage holds nothing, junk or
\* an empty array under the guest key.
InitLoad ==
  /\ user = FALSE
  /\ isGuest = FALSE
  /\ slot = << >>
  /\ slotKind \in SlotKinds
  /\ persisted = NoSession
  /\ flights = << >>
  /\ remote = << >>
  /\ todos = << >>
  /\ stats = InitialStats
  /\ filter = "all"
  /\ searchQuery = << >>
  /\ sortBy = "created_at"
  /\ sortOrder = "desc"
  /\ loading = FALSE
  /\ selectedTodos = {}
  /\ effectPending = TRUE
  /\ now = 1
  /\ last = Outcome("init", FALSE, "ok", FALSE, NoId, {}, << >>, "")

NextLoad ==
  \/ Session(Reliable)
  \/ RunEffect(Reliable)
  \/ AddTodo(TitleB, DefaultPriority, Reliable)
  \/ \E id \in Ids : DeleteTodo(id, Reliable)
  \/ \E id \in Ids : ToggleSelectTodo(id)

SpecLoad == InitLoad /\ [][NextLoad]_vars

\* The session provider over page loads, with requests that are rejected and
\* localStorage.setItem calls that throw, and the facade adding tasks.
NextAuth ==
  \/ Login(Unreliable)
  \/ Logout
  \/ SkipAuth
  \/ InitAuth(Unreliable)
  \/ RunEffect(Reliable)
  \/ AddTodo(TitleB, DefaultPriority, Reliable)

SpecAuth == Init /\ [][NextAuth]_vars

\* A signed-in session over two stored tasks whose calls overlap: the status
\* buttons, the fetch effect and updateTodo, with requests that may be
\* rejected.
InitAsync ==
  /\ user = TRUE
  /\ isGuest = FALSE
  /\ slot = << >>
  /\ slotKind = "absent"
  /\ persisted = [token |-> TRUE, user |-> TRUE, guest |-> FALSE]
  /\ flights = << >>
  /\ remote = <<SampleA, SampleB>>
  /\ todos = << >>
  /\ stats = InitialStats
  /\ filter = "all"
  /\ searchQuery = << >>
  /\ sortBy = "created_at"
  /\ sortOrder = "desc"
  /\ loading = FALSE
  /\ selectedTodos = {}
  /\ effectPending = TRUE
  /\ now = 2
  /\ last = Outcome("init", FALSE, "ok", FALSE, NoId, {}, << >>, "")

AsyncUpdates == {[completed |-> TRUE], [completed |-> FALSE]}

NextAsync ==
  \/ IssueFetch
  \/ \E f \in UiFilters : SetFilter(f)
  \/ \E updates \in AsyncUpdates : IssueUpdate(1, updates)
  \/ \E k \in 1..MaxFlights : Serve(k, Unreliable)
  \/ \E k \in 1..MaxFlights : Resolve(k)

SpecAsync == InitAsync /\ [][NextAsync]_vars

\* the calls of the guest mutators whose suspensions interleave
GuestCalls ==
  {GuestCall("add", NoId, {}, TitleB, DefaultPriority, NoUpdates)}
  \cup {GuestCall("update", id, {}, << >>, "", [completed |-> TRUE]) :
          id \in Ids}
  \cup {GuestCall("delete", id, {}, << >>, "", NoUpdates) : id \in Ids}
  \cup {GuestCall("bulk", NoId, ids, << >>, "uncomplete", NoUpdates) :
          ids \in SUBSET Ids \ {{}}}

\* A guest session whose mutator calls overlap.
NextGuestAsync ==
  \/ SkipAuth
  \/ RunEffect(Reliable)
  \/ \E f \in {"all", "completed"} : SetFilter(f)
  \/ \E id \in Ids : ToggleSelectTodo(id)
  \/ \E call \in GuestCalls : GuestStart(call, Reliable)
  \/ \E k \in 1..MaxFlights : GuestResume(k)

SpecGuestAsync == Init /\ [][NextGuestAsync]_vars

\* the collection the current mode stores its tasks in
Store == IF isGuest THEN slot ELSE remote
StoredTask(i) == Head(Stored(Store, i))

\* the mutators of the facade, as `last.op` names them
MutatorOps == {"add", "update", "delete", "toggle", "bulk"}

\* the query spec applied to the stored collection, and its stats
Applied == filterAndSortTodos(Store, searchQuery, filter, sortBy, sortOrder, now)
StatsFields == {"total", "active", "completed", "high_priority", "overdue"}

\* -------------------------------------------------------------------- claims

\* C1: when a successful add, update, delete, toggle or bulkAction has
\* returned, in either mode, the projection holds the tasks that the query
\* spec selects from the stored collection, in the order it gives them, and
\* every count the stats snapshot carries is that count of the stored
\* collection.
C1_ProjectionFresh ==
  (last.op \in MutatorOps /\ last.result = "ok") =>
     /\ todos = Applied
     /\ \A f \in StatsFields :
          stats[f] # Undefined => stats[f] = calculateGuestStats(Store, now)[f]

\* C2 as stated: after a successful add(title) with the default priority,
\* where trim(title) is not empty and title is no stored title, the stored
\* collection holds exactly one task whose title is `title`; it is not
\* completed and has priority medium, and the tasks stored before are all
\* still there, unchanged.
C2_AddThenLoad_Original ==
  [][\A text \in Titles :
       ( /\ AddTodo(text, DefaultPriority, Reliable)
         /\ last'.result = "ok"
         /\ Trim(text) # << >>
         /\ \A t \in Range(Store) : t.text # text )
       => /\ Cardinality({i \in 1..Len(Store') : Store'[i].text = text}) = 1
          /\ \A t \in Range(Store') :
               t.text = text => ~t.completed /\ t.priority = "medium"
          /\ Range(Store) \subseteq Range(Store')]_vars

\* C2, amended: the same with the trimmed title: where trim(title) is not
\* empty and is no stored title, the stored collection then holds exactly one
\* task whose title is trim(title), not completed and of priority medium, and
\* it holds every task stored before, unchanged, and no other task.
C2_AddThenLoad ==
  [][\A text \in Titles :
       ( /\ AddTodo(text, DefaultPriority, Reliable)
         /\ last'.result = "ok"
         /\ Trim(text) # << >>
         /\ \A t \in Range(Store) : t.text # Trim(text) )
       => /\ Cardinality({i \in 1..Len(Store') : Store'[i].text = Trim(text)}) = 1
          /\ \A t \in Range(Store') :
               t.text = Trim(text) => ~t.completed /\ t.priority = "medium"
          /\ Range(Store) \subseteq Range(Store')
          /\ Len(Store') = Len(Store) + 1]_vars

\* C2's case: a guest add of a title with surrounding space has returned and
\* the slot holds the new task, trimmed, before an older one.
C2_Witness ==
  /\ last.op = "add" /\ last.result = "ok" /\ last.guest
  /\ last.text # Trim(last.text) /\ Trim(last.text) # << >>
  /\ Len(slot) = 2
  /\ slot[1].id = last.id /\ slot[1].text = Trim(last.text)
  /\ slot[2].text # Trim(last.text)

\* C3: add with a title that is empty after trimming fails with a
\* ValidationError and leaves both stored collections as they were.
C3_BlankRejected ==
  [][\A text \in Titles :
       (AddTodo(text, DefaultPriority, Reliable) /\ Trim(text) = << >>)
       => /\ last'.result = "ValidationError"
          /\ slot' = slot
          /\ remote' = remote]_vars

\* the completion flag of task id before the toggle that `last` records
FlagBeforeLast(id) ==
  IF last.result = "ok" THEN Head(last.prev).completed
  ELSE StoredTask(id).completed

IsSubsequence(sub, full) ==
  \E pos \in [1..Len(sub) -> 1..Len(full)] :
     /\ \A i \in 1..Len(sub) : full[pos[i]] = sub[i]
     /\ \A i, j \in 1..Len(sub) : i < j => pos[i] < pos[j]

\* C5: a successful bulkAction('delete', ids), for every set of ids, removes
\* from the stored collection exactly the stored tasks whose id is in ids;
\* every other task stays, with its fields and in its relative order, and
\* the collection of the other mode is not touched.
C5_BulkDeleteExact ==
  [][\A todoIds \in SUBSET Ids :
       ( /\ last'.op = "bulk" /\ last'.action = "delete"
         /\ last'.ids = todoIds /\ last'.result = "ok"
         /\ BulkOperation("delete", todoIds, NoUpdates, Reliable) )
       => /\ IdsOf(Store') = IdsOf(Store) \ todoIds
          /\ Len(Store') = Cardinality(IdsOf(Store'))
          /\ IsSubsequence(Store', Store)
          /\ isGuest => remote' = remote
          /\ ~isGuest => slot' = slot]_vars

\* C5's case: a bulk delete has returned that removed a stored task and left
\* another one.
C5_Witness ==
  /\ last.op = "bulk" /\ last.action = "delete" /\ last.result = "ok"
  /\ last.prev # << >>
  /\ Store # << >>
  /\ IdsOf(Store) \cap last.ids = {}

\* C6: a bulk 'complete' or 'uncomplete' that the UI issues for its selection
\* sets the completion flag of every stored task in the selection to true,
\* respectively false, and leaves the other tasks as they were, in guest mode
\* and in authenticated mode alike.
C6_BulkCompleteBothModes ==
  [][\A action \in {"complete", "uncomplete"} :
       (HandleBulkAction(action, Reliable) /\ last'.result = "ok")
       => /\ IdsOf(Store') = IdsOf(Store)
          /\ \A t \in Range(Store') :
               IF t.id \in selectedTodos
               THEN t.completed = (action = "complete")
               ELSE t \in Range(Store)]_vars

\* C7: right after a mode transition (login, logout, guest skip), before the
\* fetch for the new mode has run, the selection is empty, the projection is
\* empty and the stats count nothing.
C7_ClearedOnTransition ==
  (last.op \in {"login", "logout", "skipAuth"} /\ last.result = "ok") =>
     /\ selectedTodos = {}
     /\ todos = << >>
     /\ \A f \in StatsFields : stats[f] \in {0, Undefined}

\* C8: the selection is empty right after logout, after a successful
\* bulkAction and after clearSelection.
C8_SelectionCleared ==
  ( \/ last.op \in {"logout", "clearSelection"}
    \/ last.op = "bulk" /\ last.result = "ok" )
  => selectedTodos = {}

\* C9: no operation of the facade that ran in guest mode has issued a request
\* to the remote service.
C9_GuestStaysLocal ==
  (last.guest /\ last.op \in MutatorOps \cup {"effect", "clearCompleted"})
  => ~last.remote

\* C10: in guest mode, update(id, updates) with an id that the slot does not
\* hold leaves the slot as it is and signals NotFound.
C10_GuestUpdateNotFound ==
  [][\A id \in Ids, updates \in Updates :
       (isGuest /\ id \notin IdsOf(slot) /\ UpdateTodo(id, updates, Reliable))
       => /\ slot' = slot
          /\ last'.result = "NotFound"]_vars

\* the completed tasks of the projection, by id
CompletedLoaded == IdsOf(SelectSeq(todos, LAMBDA t : t.completed))

\* C11: toggle(id) with an id that is not in the projection fails with
\* NotFound and changes neither stored collection nor the projection.
C11_ToggleNotFound ==
  [][\A id \in Ids :
       (id \notin IdsOf(todos) /\ ToggleTodo(id, Reliable))
       => /\ last'.result = "NotFound"
          /\ UNCHANGED <<slot, remote, todos>>]_vars

\* C12: clearCompleted removes from the stored collection exactly the tasks
\* whose id is that of a completed task of the projection and leaves every
\* other stored task as it is and in its place (a completed task that the
\* filter hides stays); the collection of the other mode is not touched.
\* With no completed task in the projection it writes nothing, requests
\* nothing, refreshes nothing and leaves the selection as it is.
C12_ClearCompletedExact ==
  [][ClearCompleted(Reliable) =>
       IF CompletedLoaded # {}
       THEN /\ last'.result = "ok"
            /\ Store' = SelectSeq(Store, LAMBDA t : t.id \notin CompletedLoaded)
            /\ isGuest => remote' = remote
            /\ ~isGuest => slot' = slot
       ELSE /\ UNCHANGED <<slot, remote, todos, stats, selectedTodos,
                           effectPending, loading>>
            /\ ~last'.remote]_vars

\* C12's case: clearCompleted has deleted a completed task of the projection
\* while a completed task that the filter 'active' kept out of the projection
\* is still stored.
C12_Witness ==
  /\ last.op = "bulk" /\ last.action = "delete" /\ last.result = "ok"
  /\ filter = "active"
  /\ last.prev # << >>
  /\ \A k \in 1..Len(last.prev) : last.prev[k].completed
  /\ \E t \in Range(Store) : t.completed

\* the bulk actions other than the three the UI sends
OtherBulkActions == BulkActions \ {"delete", "complete", "uncomplete"}

\* C13 as stated: bulkAction with an action other than 'delete', 'complete'
\* and 'uncomplete' leaves both stored collections as they are, raises no
\* error and leaves the selection empty, in either mode.
C13_UnknownBulkAction_Original ==
  [][\A action \in OtherBulkActions, todoIds \in SUBSET Ids :
       \A updates \in BulkUpdates(action) :
          ( /\ last'.op = "bulk" /\ last'.action = action
            /\ last'.ids = todoIds
            /\ BulkOperation(action, todoIds, updates, Reliable) )
          => /\ UNCHANGED <<slot, remote>>
             /\ last'.result = "ok"
             /\ selectedTodos' = {}]_vars

\* C13, amended: the same, except for the action 'update' called with an
\* updates argument in authenticated mode, which the remote adapter applies:
\* it merges the updates into every stored task whose id is in ids, leaves
\* the other tasks as they are, raises no error and leaves the selection
\* empty.
C13_UnknownBulkAction ==
  [][\A action \in OtherBulkActions, todoIds \in SUBSET Ids :
       \A updates \in BulkUpdates(action) :
          ( /\ last'.op = "bulk" /\ last'.action = action
            /\ last'.ids = todoIds
            /\ BulkOperation(action, todoIds, updates, Reliable) )
          => /\ last'.result = "ok"
             /\ selectedTodos' = {}
             /\ slot' = slot
             /\ IF ~isGuest /\ action = "update" /\ updates # NoUpdates
                THEN /\ Len(remote') = Len(remote)
                     /\ \A k \in 1..Len(remote) :
                          IF remote[k].id \in todoIds
                          THEN /\ remote'[k].id = remote[k].id
                               /\ remote'[k].text = remote[k].text
                               /\ remote'[k].completed = updates.completed
                          ELSE remote'[k] = remote[k]
                ELSE remote' = remote]_vars

\* C13's case: a bulk action with a string that no branch knows has returned
\* for ids that matched a stored task, which is still stored as it was.
C13_Witness ==
  /\ last.op = "bulk" /\ last.action = "archive" /\ last.result = "ok"
  /\ last.prev # << >>
  /\ \A k \in 1..Len(last.prev) : last.prev[k] \in Range(Store)
  /\ selectedTodos = {}

\* the fetch effect has run for the current query spec in a session
Fetched == last.op = "effect" /\ (user \/ isGuest)

\* C14: for the same stored collection and the same query spec, the guest
\* refetch and the authenticated refetch select the same set of tasks.
C14_SameSelectionBothModes ==
  Fetched =>
     Range(filterAndSortTodos(Store, searchQuery, filter, sortBy, sortOrder, now))
       = Range(getAll(Store, FetchParams(searchQuery, filter, sortBy, sortOrder)))

\* C15: in authenticated mode, after a refetch under the filter 'overdue',
\* every task of the projection has a due date, earlier than now, and is not
\* completed.
C15_RemoteOverdue ==
  (Fetched /\ ~isGuest /\ filter = "overdue") =>
     \A k \in 1..Len(todos) :
        /\ todos[k].due_date # Undefined
        /\ todos[k].due_date < now
        /\ ~todos[k].completed

\* the tasks the spec selects from the slot for a status filter
Selected(f) ==
  CASE f = "all" -> Range(slot)
    [] f = "active" -> {t \in Range(slot) : t.completed = FALSE}
    [] f = "completed" -> {t \in Range(slot) : t.completed = TRUE}
    [] f = "high-priority" ->
         {t \in Range(slot) : t.priority = "high" /\ t.completed = FALSE}
    [] f = "overdue" ->
         {t \in Range(slot) :
            t.due_date # Undefined /\ t.due_date < now /\ t.completed = FALSE}

\* C16: the guest query engine with an empty search string returns, for
\* each of the five status filters, exactly the tasks of the collection that
\* the filter names, each once.
C16_GuestFilters ==
  (Fetched /\ isGuest /\ searchQuery = << >>) =>
     /\ Range(todos) = Selected(filter)
     /\ Len(todos) = Cardinality(Selected(filter))

\* C16's case: under 'overdue' the engine returned the one overdue task of a
\* slot that also holds a completed task with a past due date and an open
\* task that is not overdue.
C16_Witness ==
  /\ Fetched /\ isGuest /\ searchQuery = << >> /\ filter = "overdue"
  /\ Len(todos) = 1
  /\ \E t \in Range(slot) : t.completed /\ t.due_date # Undefined /\ t.due_date < now
  /\ \E t \in Range(slot) :
        ~t.completed /\ (t.due_date = Undefined \/ t.due_date >= now)

\* the sort key the spec gives a task: the priority ordinal, a date with a
\* missing one as the epoch
SortKey(t, sb) ==
  CASE sb = "priority" ->
         (IF t.priority = "high" THEN 3 ELSE IF t.priority = "medium" THEN 2 ELSE 1)
    [] sb = "due_date" -> (IF t.due_date = Undefined THEN 0 ELSE t.due_date)
    [] sb = "updated_at" -> t.updated_at
    [] OTHER -> t.created_at

\* a comes no later than b in ascending order of the key
KeyLeq(a, b, sb) ==
  IF sb = "text" THEN ~StrLess(ToLowerCase(b.text), ToLowerCase(a.text))
  ELSE SortKey(a, sb) <= SortKey(b, sb)

\* C17: the guest query engine's output is a permutation of the filtered
\* tasks, non-decreasing in the requested key for 'asc' and non-increasing
\* for 'desc'; the key of 'priority' is high = 3, medium = 2, low = 1 and a
\* missing due date counts as the epoch.
C17_GuestSortOrdered ==
  (Fetched /\ isGuest) =>
     LET filtered == {t \in Range(slot) :
                        /\ searchQuery = << >> \/ MatchesSearch(t, searchQuery)
                        /\ MatchesFilter(t, filter, now)}
     IN /\ Range(todos) = filtered
        /\ Len(todos) = Cardinality(filtered)
        /\ \A i, j \in 1..Len(todos) :
             i < j => IF sortOrder = "asc"
                      THEN KeyLeq(todos[i], todos[j], sortBy)
                      ELSE KeyLeq(todos[j], todos[i], sortBy)

\* C17's case: priorities stored as low, high, medium came out as high,
\* medium, low under 'priority' descending.
C17_Witness ==
  /\ Fetched /\ isGuest /\ sortBy = "priority" /\ sortOrder = "desc"
  /\ [k \in 1..Len(slot) |-> slot[k].priority] = <<"low", "high", "medium">>
  /\ [k \in 1..Len(todos) |-> todos[k].priority] = <<"high", "medium", "low">>

\* C18: after a stats refresh, in either mode, the snapshot carries an
\* active count and total = active + completed.
C18_StatsSumToTotal ==
  Fetched =>
     /\ stats.active # Undefined
     /\ stats.total = stats.active + stats.completed

\* C19: the snapshot a stats refresh produces in authenticated mode equals
\* the guest computation on the same collection in each of total, active,
\* completed, high_priority and overdue.
C19_StatsSameBothModes ==
  (Fetched /\ ~isGuest) =>
     \A f \in StatsFields : stats[f] = calculateGuestStats(remote, now)[f]

QuerySetterOps == {"setFilter", "setSearchQuery", "setSortBy", "setSortOrder"}

\* C20: the refetch that follows a change of the search string, the status
\* filter, the sort key or the direction, the stored collection being the
\* same, leaves every field of the stats snapshot as it was; the snapshot
\* counts the whole stored collection (total, completed), not the projection.
C20_StatsIgnoreQuery ==
  [][(last.op \in QuerySetterOps /\ RunEffect(Reliable))
     => /\ stats' = stats
        /\ stats'.total = Len(Store)
        /\ stats'.completed =
             Cardinality({k \in 1..Len(Store) : Store[k].completed})]_vars

\* C20's case: a refetch under a filter or a search that hides stored tasks
\* has run, and the snapshot still counts all of them.
C20_Witness ==
  /\ Fetched
  /\ filter # "all" \/ searchQuery # << >>
  /\ Len(todos) < Len(Store)
  /\ stats.total = Len(Store)
  /\ stats.total > 1

\* C26: in every state the selection holds only ids of tasks of the current
\* projection.
C26_SelectionVisible ==
  selectedTodos \subseteq IdsOf(todos)

\* C30: the facade sends its list and stats requests to the remote service
\* only while a user is signed in: a fetch effect that went to the service
\* ran in a session with a user.
C30_NoRemoteWhenSignedOut ==
  (last.op = "effect" /\ last.remote) => user

\* the ids of a collection are pairwise distinct
IdsDistinct(s) == Cardinality(IdsOf(s)) = Len(s)

\* C23: in guest mode every step of add, update (whatever its updates carry),
\* toggle, delete and bulkAction keeps the id of every task that stays stored
\* (a step that neither adds nor deletes keeps the ids in place) and keeps
\* the stored ids pairwise distinct.
C23_GuestIdsStable ==
  [][isGuest =>
       /\ Len(slot') = Len(slot) =>
            \A k \in 1..Len(slot) : slot'[k].id = slot[k].id
       /\ IdsDistinct(slot) => IdsDistinct(slot')]_vars

\* C21: in guest mode, when the write of the slot fails during add, update,
\* delete or a bulk action, the call ends with the error and the slot, the
\* projection, the stats and the selection are what they were before it.
C21_FailedWriteChangesNothing ==
  [][(/\ isGuest
      /\ last'.op \in MutatorOps
      /\ last'.result = "StorageError")
     => UNCHANGED <<slot, todos, stats, selectedTodos>>]_vars

\* a guest delete of a stored, displayed and selected task has failed on the
\* write
C21_Witness ==
  /\ isGuest
  /\ last.op = "delete"
  /\ last.result = "StorageError"
  /\ last.id \in IdsOf(slot) \cap IdsOf(todos) \cap selectedTodos

\* C22: an operation in which a list or stats request of the refetch failed
\* does not return normally: the failure reaches its caller.
C22_RefetchErrorsReachCaller ==
  (last.op \in MutatorOps /\ last.swallowed) => last.result # "ok"

\* C24: in guest mode, when the slot is absent or holds content that does not
\* parse, the load gives the empty projection and ends without an error.
C24_LoadOfBadSlotIsEmpty ==
  (isGuest /\ last.op = "effect" /\ slotKind # "array")
    => (todos = << >> /\ last.result = "ok")

\* a guest load has run on an unparsable slot in a session that had shown
\* the tasks of a signed-in user before
C24_Witness ==
  /\ isGuest
  /\ last.op = "effect"
  /\ slotKind = "unparsable"
  /\ remote # << >>

\* C29: the session is never signed in and guest at once, and localStorage
\* never holds the guest flag together with a token.
C29_SessionExclusive ==
  /\ user => ~isGuest
  /\ ~(persisted.guest /\ persisted.token)

\* C25: in a signed-in session, when the response of a list fetch or of an
\* update arrives, the projection becomes what that response writes, however
\* many other calls are in flight and whichever was started first: the
\* response that arrives last decides.
C25_LastResponseWins ==
  [][\A k \in 1..MaxFlights :
       (/\ last'.op = "resolve"
        /\ last'.id = k
        /\ Resolve(k)
        /\ flights[k].pc = "served"
        /\ flights[k].ok)
       => todos' =
            IF flights[k].kind = "list" THEN flights[k].data
            ELSE [i \in 1..Len(todos) |->
                    IF todos[i].id = flights[k].id THEN Head(flights[k].data)
                    ELSE todos[i]]]_vars

\* two list fetches for different query specs; the response of the one
\* started later has arrived first, the response of the older one last, and
\* the projection is the older one's
C25_Witness ==
  /\ Len(flights) = 2
  /\ flights[1].kind = "list" /\ flights[2].kind = "list"
  /\ flights[1].params # flights[2].params
  /\ flights[2].pc \in {"statsSent", "statsServed", "done"}
  /\ flights[1].ok /\ flights[2].ok
  /\ flights[1].data # flights[2].data
  /\ last.op = "resolve" /\ last.id = 1 /\ last.action = "list"
  /\ todos = flights[1].data

\* C28: the loading flag is set in every state in which a list fetch is in
\* flight.
C28_LoadingWhileFetching ==
  (\E k \in 1..Len(flights) :
      flights[k].kind = "list" /\ flights[k].pc \in {"sent", "served"})
    => loading

\* the collection a guest mutation gives when it is applied to a collection
\* on its own
Sequential(call, stored) ==
  CASE call.kind = "add" ->
         <<Todo(last'.id, Trim(call.text), << >>, FALSE, call.action,
                Undefined, now, now)>> \o stored
    [] call.kind = "update" ->
         [k \in 1..Len(stored) |->
            IF k = FindIndex(stored, call.id)
            THEN [Merge(stored[k], call.updates) EXCEPT !.updated_at = now]
            ELSE stored[k]]
    [] call.kind = "delete" -> SelectSeq(stored, LAMBDA t : t.id # call.id)
    [] OTHER ->
         [k \in 1..Len(stored) |->
            IF stored[k].id \in call.ids
            THEN [stored[k] EXCEPT !.completed = (call.action = "complete"),
                                   !.updated_at = now]
            ELSE stored[k]]

\* C27: in a guest session with mutator calls suspended in any interleaving,
\* every change of the slot is the mutation of the one call that starts in
\* that step, applied to the slot as the step found it; no resumed call
\* writes the slot.  The slot after all calls is therefore their mutations
\* applied one after another in the order of their starts.
C27_NoLostUpdate ==
  [][(isGuest /\ slot' # slot)
       => \E call \in GuestCalls :
             /\ last'.op = call.kind
             /\ last'.result = "pending"
             /\ call.kind \in {"update", "delete"} => last'.id = call.id
             /\ call.kind = "bulk" => last'.ids = call.ids
             /\ slot' = Sequential(call, slot)]_vars

\* an update started while an add was suspended before its stats, and the
\* slot holds the added task with the update applied
C27_Witness ==
  /\ isGuest
  /\ Len(flights) = 2
  /\ flights[1].kind = "add" /\ flights[1].pc = "fetched"
  /\ flights[2].kind = "update" /\ flights[2].pc = "fetched"
  /\ Len(slot) = 1
  /\ slot[1].completed

====
